---- MODULE Spec2Model ----
(***************************************************************************)
(* job-status-to-apps-adapter: the propagation loop of main.go.            *)
(*                                                                         *)
(* The store (table job_status_updates) is external state read by          *)
(* Unpropagated.  main runs an endless cycle: query, cut the result into   *)
(* batches, start one goroutine per member of a batch, wg.Wait(), next     *)
(* batch, next cycle.  A second goroutine serves the expvar listener and   *)
(* ends the process if it cannot bind or serve.                            *)
(*                                                                         *)
(* Spec          the whole loop, with the store changing under it          *)
(* SpecQuery     Unpropagated alone, over every store content              *)
(* SpecBatch     the batching loop alone, over every candidate sequence    *)
(* SpecPropagate one goroutine alone, over every HTTP status               *)
(***************************************************************************)
EXTENDS Integers, Sequences, FiniteSets, TLC

\* ------------------------------------------------------------------ bounds
Ids == {"a", "b", "c"}
NRows == 3
MaxAttempts == 1
MaxRetriesBound == 2
MaxBatchSize == 2
MaxCycles == 2
\* SpecQuery: attempts recorded in a row, and the ceilings 0..MaxQueryRetries.
MaxQueryAttempts == 2
MaxQueryRetries == 3
\* SpecBatch: length of the candidate sequence; batch sizes go one beyond it.
MaxLen == 5
\* SpecPropagate: the statuses the endpoint may answer with.
MinStatus == 100
MaxStatus == 599

Rows == 1..NRows

\* The HTTP statuses the downstream endpoint answers with inside the poll loop.
StatusCodes == {200, 500}

VARIABLES
    store,          \* job_status_updates: row -> record
    maxRetries,     \* *maxRetries (flag "retries")
    batchSize,      \* *batchSize (flag "batch-size")
    appsURI,        \* whether apps.callbacks_uri makes a valid request URL
    pc,             \* position of main
    exitCause,      \* why the process ended
    cycle,          \* number of the current iteration of the for loop
    unpropped,      \* main's local unpropped
    batches,        \* main's local batches
    bi, ji,         \* positions of the two range loops over batches and batch
    wg,             \* counter of the cycle's sync.WaitGroup
    tasks,          \* goroutines started and not yet returned
    candidates,     \* what this cycle's Unpropagated call returned
    launched,       \* ids for which a goroutine was started this cycle, in order
    result,         \* what the goroutine of each id logged this cycle
    dispatchCount,  \* goroutines started per id, over all cycles
    failed,         \* ids with a failed Propagate so far
    barriers        \* per wg.Wait() passed this cycle: the goroutines it waited for

vars == <<store, maxRetries, batchSize, appsURI, pc, exitCause, cycle,
          unpropped, batches, bi, ji, wg, tasks, candidates, launched, result,
          dispatchCount, failed, barriers>>

config == <<maxRetries, batchSize, appsURI>>
mainLocals == <<unpropped, batches, bi, ji>>
history == <<candidates, launched, result, dispatchCount, failed, barriers>>

\* ------------------------------------------------------------- helpers
Range(s) == {s[i] : i \in DOMAIN s}

NoDup(s) == \A i, j \in DOMAIN s : i # j => s[i] # s[j]

\* All duplicate-free sequences whose elements are exactly S.
Orderings(S) ==
    {s \in [1..Cardinality(S) -> S] : Range(s) = S}

\* All sequences over S of length at most n.
SeqsUpTo(S, n) == UNION {[1..k -> S] : k \in 0..n}

RECURSIVE Concat(_)
Concat(ss) == IF ss = <<>> THEN <<>> ELSE Head(ss) \o Concat(Tail(ss))

\* s[n:] of Go, n counted from 0.
SliceFrom_Skip(s, n) == SubSeq(s, n + 2, Len(s))
SliceFrom_Same(s, n) == s
SliceFrom(s, n) == SubSeq(s, n + 1, Len(s))
\* s[0:n] of Go.
SliceTo(s, n) == SubSeq(s, 1, n)

\* ------------------------------------------------------------ the store
StatusRecord ==
    [external_id : Ids, propagated : BOOLEAN, propagation_attempts : 0..MaxAttempts]

QueryRecord ==
    [external_id : Ids, propagated : BOOLEAN, propagation_attempts : 0..MaxQueryAttempts]

\* The job each row of the table belongs to; rows beyond the third repeat a job.
IdSeq == <<"a", "b", "c">>
RowExt(r) == IdSeq[((r - 1) % Len(IdSeq)) + 1]

\* where propagated = 'false' and propagation_attempts < $1
Selected_le(d, T) ==
    {r \in DOMAIN d : d[r].propagated = FALSE /\ d[r].propagation_attempts <= T}
Selected_NoCeiling(d, T) ==
    {r \in DOMAIN d : d[r].propagated = FALSE}
Selected(d, T) ==
    {r \in DOMAIN d : d[r].propagated = FALSE /\ d[r].propagation_attempts < T}

\* select distinct external_id ... ; the rows come back in any order.
Unpropagated(d, T) ==
    Orderings({d[r].external_id : r \in Selected(d, T)})

\* ------------------------------------------------------------ Propagate
NoResponse == [err |-> TRUE, StatusCode |-> 0]
Responses(codes) == {NoResponse} \cup {[err |-> FALSE, StatusCode |-> c] : c \in codes}

\* The error Propagate returns: "nil", or the step that failed.
\* json.Marshal of a struct holding one string cannot fail.
Propagate_Off(uriValid, resp) ==
    IF ~uriValid THEN "request"
    ELSE IF resp.err THEN "transport"
    ELSE IF resp.StatusCode < 200 \/ resp.StatusCode >= 299 THEN "bad response"
    ELSE "nil"
Propagate(uriValid, resp) ==
    IF ~uriValid THEN "request"
    ELSE IF resp.err THEN "transport"
    ELSE IF resp.StatusCode < 200 \/ resp.StatusCode > 299 THEN "bad response"
    ELSE "nil"

\* msg, err := json.Marshal(JobStatusUpdate{UUID: uuid})
Marshal(uuid) == [uuid |-> uuid]

\* What a goroutine leaves in the store: Propagate never uses p.db.
GoroutineStore_Count(d, uuid, err) ==
    IF err = "nil" THEN d
    ELSE [r \in DOMAIN d |->
            IF d[r].external_id = uuid /\ d[r].propagation_attempts < MaxAttempts
            THEN [d[r] EXCEPT !.propagation_attempts = @ + 1]
            ELSE d[r]]
GoroutineStore(d, uuid, err) == d

\* if err = proper.Propagate(...); err != nil { log.Error(err) }
LogError_Fatal(err) ==
    IF err = "nil" THEN UNCHANGED <<pc, exitCause>>
    ELSE pc' = "exited" /\ exitCause' = "dispatch"
LogError(err) == UNCHANGED <<pc, exitCause>>

\* A context is named by the chain of contexts it derives from; cancelling a
\* context reaches exactly the contexts that derive from it.
Background == <<"Background">>
\* otel.Tracer(otelName).Start(context.Background(), "propagation loop")
CycleCtx == Background \o <<"propagation loop">>
\* trace.ContextWithSpanContext(context.Background(), ...), then Tracer.Start:
\* only the span context of ctx is carried over.
GoroutineCtx(ctx) == Background \o <<"propagator goroutine">>

DerivesFrom(c, p) == Len(p) <= Len(c) /\ SubSeq(c, 1, Len(p)) = p

\* Log lines 130, 135 and 251 of one goroutine: the response and the error.
NotLogged == [called |-> FALSE, body |-> Marshal(""), resp |-> NoResponse, err |-> "nil"]
NoResult == [i \in Ids |-> NotLogged]

\* for *batchSize < len(unpropped)
MoreBatches_le(B, n) == B <= n
MoreBatches(B, n) == B < n

\* The jobExtID handed to the goroutine: the range variable, passed as an argument.
JobExtID_Captured(bs, i, j) == bs[i][Len(bs[i])]
JobExtID(bs, i, j) == bs[i][j]

\* The inner loop starts a goroutine for every member of the batch: nothing
\* between the range clause and wg.Add(1) looks at the store again.
Dispatches_Recheck(d, T, id) ==
    \E r \in DOMAIN d :
        d[r].external_id = id /\ d[r].propagated = FALSE /\ d[r].propagation_attempts < T
Dispatches(d, T, id) == TRUE

\* defer wg.Done(): runs however the goroutine ends.
WgDone_Missing(n, err) == n
WgDone_OnSuccess(n, err) == IF err = "nil" THEN n - 1 ELSE n
WgDone(n, err) == n - 1

\* for { ... }: after span.End() the loop body starts again.
NextIteration_Return == "exited"
NextIteration == "query"

\* wg.Wait() blocks until the counter is zero.
WaitReturns_Early(n) == TRUE
WaitReturns_One(n) == n <= 1
WaitReturns(n) == n = 0

\* log.Fatal: the process ends.
Fatal_Continue(cause) == pc' = "batch" /\ exitCause' = cause
Fatal(cause) == pc' = "exited" /\ exitCause' = cause

\* ----------------------------------------------------------------- Init
InitLoop ==
    /\ pc = "query"
    /\ exitCause = "none"
    /\ cycle = 1
    /\ unpropped = <<>>
    /\ batches = <<>>
    /\ bi = 1
    /\ ji = 1
    /\ wg = 0
    /\ tasks = {}
    /\ candidates = <<>>
    /\ launched = <<>>
    /\ result = NoResult
    /\ dispatchCount = [i \in Ids |-> 0]
    /\ failed = {}
    /\ barriers = <<>>

Init ==
    /\ store \in {d \in [Rows -> StatusRecord] : \A r \in Rows : d[r].external_id = RowExt(r)}
    /\ maxRetries \in 1..MaxRetriesBound
    /\ batchSize \in 1..MaxBatchSize
    /\ appsURI \in BOOLEAN
    /\ InitLoop

Running == pc # "exited"

\* ------------------------------------------------------- external actors
\* The downstream consumer acknowledges a status update.
Acknowledge(r) ==
    /\ store[r].propagated = FALSE
    /\ store' = [store EXCEPT ![r].propagated = TRUE]
    /\ UNCHANGED <<config, pc, exitCause, cycle, mainLocals, wg, tasks, history>>

\* Whoever owns the attempt bookkeeping counts an attempt.
CountAttempt(r) ==
    /\ store[r].propagation_attempts < MaxAttempts
    /\ store' = [store EXCEPT ![r].propagation_attempts = @ + 1]
    /\ UNCHANGED <<config, pc, exitCause, cycle, mainLocals, wg, tasks, history>>

\* ------------------------------------------------------------- listener
\* net.Listen or http.Serve returns an error: log.Fatal.
ListenerFatal ==
    /\ Running
    /\ Fatal("listener")
    /\ UNCHANGED <<store, config, cycle, mainLocals, wg, tasks, history>>

\* ----------------------------------------------------------------- main
\* ctx, span := ...; var batches; var wg; unpropped, err := Unpropagated(...); err == nil
QueryOK ==
    /\ pc = "query"
    /\ \E u \in Unpropagated(store, maxRetries) :
        /\ unpropped' = u
        /\ candidates' = u
    /\ batches' = <<>>
    /\ wg' = 0
    /\ launched' = <<>>
    /\ result' = NoResult
    /\ barriers' = <<>>
    /\ pc' = "batch"
    /\ UNCHANGED <<store, config, exitCause, cycle, bi, ji, tasks, dispatchCount, failed>>

\* err != nil: span.End(); log.Fatal(err)
QueryError ==
    /\ pc = "query"
    /\ Fatal("query")
    /\ unpropped' = <<>>
    /\ batches' = <<>>
    /\ wg' = 0
    /\ candidates' = <<>>
    /\ launched' = <<>>
    /\ result' = NoResult
    /\ barriers' = <<>>
    /\ UNCHANGED <<store, config, cycle, bi, ji, tasks, dispatchCount, failed>>

\* for *batchSize < len(unpropped) { ... }
BatchStep ==
    /\ pc = "batch"
    /\ MoreBatches(batchSize, Len(unpropped))
    /\ Len(batches) <= MaxLen
    /\ unpropped' = SliceFrom(unpropped, batchSize)
    /\ batches' = Append(batches, SliceTo(unpropped, batchSize))
    /\ UNCHANGED <<store, config, pc, exitCause, cycle, bi, ji, wg, tasks, history>>

\* batches = append(batches, unpropped)
BatchLast ==
    /\ pc = "batch"
    /\ ~MoreBatches(batchSize, Len(unpropped))
    /\ batches' = Append(batches, unpropped)
    /\ bi' = 1
    /\ ji' = 1
    /\ pc' = "dispatch"
    /\ UNCHANGED <<store, config, exitCause, cycle, unpropped, wg, tasks, history>>

\* wg.Add(1); go func(...){...}(ctx, db, *maxRetries, appsURI, jobExtID)
Launch ==
    /\ pc = "dispatch"
    /\ bi <= Len(batches)
    /\ ji <= Len(batches[bi])
    /\ LET jobExtID == JobExtID(batches, bi, ji) IN
        IF Dispatches(store, maxRetries, jobExtID)
        THEN /\ wg' = wg + 1
             /\ tasks' = tasks \cup {[n |-> Len(launched) + 1, jobExtID |-> jobExtID,
                                       batch |-> bi, cycle |-> cycle,
                                       ctx |-> GoroutineCtx(CycleCtx)]}
             /\ launched' = Append(launched, jobExtID)
             /\ dispatchCount' = [dispatchCount EXCEPT ![jobExtID] = @ + 1]
        ELSE UNCHANGED <<wg, tasks, launched, dispatchCount>>
    /\ ji' = ji + 1
    /\ UNCHANGED <<store, config, pc, exitCause, cycle, unpropped, batches, bi,
                   candidates, result, failed, barriers>>

\* wg.Wait() returns and the outer range moves to the next batch.
Wait ==
    /\ pc = "dispatch"
    /\ bi <= Len(batches)
    /\ ji > Len(batches[bi])
    /\ WaitReturns(wg)
    /\ bi' = bi + 1
    /\ ji' = 1
    /\ barriers' = Append(barriers, ji - 1)
    /\ UNCHANGED <<store, config, pc, exitCause, cycle, unpropped, batches, wg,
                   tasks, candidates, launched, result, dispatchCount, failed>>

\* span.End() and the next iteration of for { ... }
EndCycle ==
    /\ pc = "dispatch"
    /\ bi > Len(batches)
    /\ cycle < MaxCycles
    /\ cycle' = cycle + 1
    /\ pc' = NextIteration
    /\ UNCHANGED <<store, config, exitCause, mainLocals, wg, tasks, history>>

\* The body of the goroutine: NewPropagator, Propagate, log, deferred wg.Done().
Goroutine(t, resp) ==
    /\ Running
    /\ t \in tasks
    /\ LET err == Propagate(appsURI, resp) IN
        /\ result' = [result EXCEPT ![t.jobExtID] =
                          [called |-> TRUE, body |-> Marshal(t.jobExtID), err |-> err,
                           resp |-> IF appsURI THEN resp ELSE NoResponse]]
        /\ failed' = IF err = "nil" THEN failed ELSE failed \cup {t.jobExtID}
        /\ store' = GoroutineStore(store, t.jobExtID, err)
        /\ LogError(err)
        /\ wg' = WgDone(wg, err)
    /\ tasks' = tasks \ {t}
    /\ UNCHANGED <<config, cycle, mainLocals, candidates, launched, dispatchCount, barriers>>

Next ==
    \/ \E r \in Rows : Acknowledge(r)
    \/ \E r \in Rows : CountAttempt(r)
    \/ ListenerFatal
    \/ QueryOK
    \/ QueryError
    \/ BatchStep
    \/ BatchLast
    \/ Launch
    \/ Wait
    \/ EndCycle
    \/ \E t \in tasks, resp \in Responses(StatusCodes) : Goroutine(t, resp)

Spec == Init /\ [][Next]_vars

\* ------------------------------------------------ Unpropagated on its own
InitQuery ==
    /\ store \in [Rows -> QueryRecord]
    /\ maxRetries \in 0..MaxQueryRetries
    /\ batchSize = 1
    /\ appsURI = TRUE
    /\ InitLoop

NextQuery == QueryOK

SpecQuery == InitQuery /\ [][NextQuery]_vars

\* --------------------------------------------- the batching loop on its own
InitBatch ==
    /\ store = [r \in Rows |->
                  [external_id |-> RowExt(r), propagated |-> FALSE, propagation_attempts |-> 0]]
    /\ maxRetries = 1
    /\ batchSize \in 1..(MaxLen + 1)
    /\ appsURI = TRUE
    /\ pc = "batch"
    /\ exitCause = "none"
    /\ cycle = 1
    /\ unpropped \in SeqsUpTo(Ids, MaxLen)
    /\ candidates = unpropped
    /\ batches = <<>>
    /\ bi = 1
    /\ ji = 1
    /\ wg = 0
    /\ tasks = {}
    /\ launched = <<>>
    /\ result = NoResult
    /\ dispatchCount = [i \in Ids |-> 0]
    /\ failed = {}
    /\ barriers = <<>>

NextBatch == BatchStep \/ BatchLast

SpecBatch == InitBatch /\ [][NextBatch]_vars

\* ------------------------------------------------- one goroutine on its own
\* main has just started the goroutine of the only candidate.
InitPropagate ==
    /\ store = [r \in Rows |->
                  [external_id |-> RowExt(r), propagated |-> FALSE, propagation_attempts |-> 0]]
    /\ maxRetries = 1
    /\ batchSize = 1
    /\ appsURI \in BOOLEAN
    /\ pc = "dispatch"
    /\ exitCause = "none"
    /\ cycle = 1
    /\ \E id \in Ids :
        /\ unpropped = <<id>>
        /\ candidates = <<id>>
        /\ batches = <<<<id>>>>
        /\ launched = <<id>>
        /\ tasks = {[n |-> 1, jobExtID |-> id, batch |-> 1, cycle |-> 1,
                     ctx |-> GoroutineCtx(CycleCtx)]}
        /\ dispatchCount = [i \in Ids |-> IF i = id THEN 1 ELSE 0]
    /\ bi = 1
    /\ ji = 2
    /\ wg = 1
    /\ result = NoResult
    /\ failed = {}
    /\ barriers = <<>>

NextPropagate ==
    \E t \in tasks, resp \in Responses(MinStatus..MaxStatus) : Goroutine(t, resp)

SpecPropagate == InitPropagate /\ [][NextPropagate]_vars

\* ================================================================ claims
HasSelectableRow(d, T, id) ==
    \E r \in DOMAIN d :
        /\ d[r].external_id = id
        /\ d[r].propagated = FALSE
        /\ d[r].propagation_attempts < T

\* C1: whatever the ceiling T and the store hold, the sequence Unpropagated
\* returns has no identifier twice and holds exactly the identifiers that have
\* a row with propagated = false and propagation_attempts < T; an identifier
\* whose unpropagated rows all record T attempts or more is not returned.
C1_UnpropagatedExact ==
    pc = "batch" =>
        /\ NoDup(candidates)
        /\ \A id \in Ids :
            id \in Range(candidates) <=> HasSelectableRow(store, maxRetries, id)
        /\ \A i \in DOMAIN candidates : \E r \in Rows :
            /\ store[r].external_id = candidates[i]
            /\ store[r].propagation_attempts < maxRetries

\* Two selectable rows of one job give one entry, and a job at its ceiling is left out.
C1_Witness ==
    /\ pc = "batch"
    /\ candidates # <<>>
    /\ \E r1, r2 \in Rows :
        /\ r1 # r2
        /\ store[r1].external_id = store[r2].external_id
        /\ r1 \in Selected(store, maxRetries)
        /\ r2 \in Selected(store, maxRetries)
    /\ \E r \in Rows :
        /\ store[r].propagated = FALSE
        /\ store[r].propagation_attempts >= maxRetries
        /\ store[r].external_id \notin Range(candidates)

\* C2: when the batching loop is done, every chunk has at most batchSize
\* members and the chunks, joined in order, are the candidate sequence.
C2_BatchesPartition ==
    pc = "dispatch" =>
        /\ \A k \in DOMAIN batches : Len(batches[k]) <= batchSize
        /\ Concat(batches) = candidates

\* Three chunks, the last one short, over a sequence that repeats an element.
C2_Witness ==
    /\ pc = "dispatch"
    /\ Len(batches) = 3
    /\ Len(batches[3]) < batchSize
    /\ Len(batches[3]) > 0
    /\ ~NoDup(candidates)

\* C3: at most batchSize goroutines are in flight, and every goroutine in
\* flight belongs to the batch main is at, in the cycle main is at.
C3_BatchesNeverOverlap ==
    /\ Cardinality(tasks) <= batchSize
    /\ \A t \in tasks : t.batch = bi /\ t.cycle = cycle

\* The second batch runs at full width after the first has been waited for.
C3_Witness ==
    /\ bi = 2
    /\ Cardinality(tasks) = batchSize
    /\ \A t \in tasks : t.batch = 2
    /\ result[batches[1][1]].called

GoroutineFailed(t) ==
    /\ t \in tasks
    /\ t \notin tasks'
    /\ result'[t.jobExtID].err # "nil"

\* C4: a goroutine whose Propagate fails ends alone: main stays where it is,
\* the process keeps running, the other goroutines and their logged results
\* are untouched; and a cycle is left only with every candidate started and
\* returned.
C4_FailureContained ==
    [][/\ \A t \in tasks : GoroutineFailed(t) =>
            /\ pc' = pc
            /\ exitCause' = exitCause
            /\ mainLocals' = mainLocals
            /\ tasks' = tasks \ {t}
            /\ \A i \in Ids \ {t.jobExtID} : result'[i] = result[i]
       /\ cycle' # cycle =>
            /\ launched = candidates
            /\ \A i \in Range(candidates) : result[i].called
      ]_vars

\* One id answered 500, another 200, and the loop is at its next cycle.
C4_Witness ==
    /\ cycle = 2
    /\ pc = "query"
    /\ \E i, j \in Ids :
        /\ result[i].called
        /\ result[i].resp.StatusCode = 500
        /\ result[i].err = "bad response"
        /\ result[j].called
        /\ result[j].resp.StatusCode = 200
        /\ result[j].err = "nil"

\* C5: Propagate returns nil exactly when a response came back and its
\* status is between 200 and 299.
C5_SuccessIff2xx ==
    \A i \in Ids : result[i].called =>
        (result[i].err = "nil" <=>
            /\ ~result[i].resp.err
            /\ result[i].resp.StatusCode >= 200
            /\ result[i].resp.StatusCode <= 299)

\* Status 299 was answered and counted as success.
C5_Witness ==
    \E i \in Ids :
        /\ result[i].called
        /\ ~result[i].resp.err
        /\ result[i].resp.StatusCode = 299
        /\ result[i].err = "nil"

\* C6: no id is dispatched more often than the retry ceiling allows.
C6_AttemptsBounded ==
    \A i \in Ids : dispatchCount[i] <= maxRetries

\* C7: the context of every goroutine in flight derives from the cycle's
\* context, so that cancelling the cycle's context reaches it.
C7_CancellationReachesTasks ==
    \A t \in tasks : DerivesFrom(t.ctx, CycleCtx)

C9_RetriedUntilCeiling ==
    [][/\ (pc = "query" /\ pc' = "batch") =>
            \A i \in failed :
                i \in Range(candidates') <=> HasSelectableRow(store, maxRetries, i)
       /\ \A i \in Ids :
            ~HasSelectableRow(store, maxRetries, i) => ~HasSelectableRow(store', maxRetries, i)
       /\ cycle' # cycle => Range(candidates) \subseteq Range(launched)
       /\ NoDup(launched')
      ]_vars

\* An id that failed in the first cycle is in flight again in the second.
C9_Witness ==
    /\ cycle = 2
    /\ \E t \in tasks :
        /\ t.jobExtID \in failed
        /\ ~result[t.jobExtID].called
        /\ dispatchCount[t.jobExtID] = 2

\* C10: the step on which the query fails ends the process with no goroutine
\* started or in flight, and from then on main starts nothing and no cycle begins.
C10_QueryErrorIsFatal ==
    [][/\ exitCause' = "query" =>
            /\ pc' = "exited"
            /\ tasks' = {}
            /\ wg' = 0
            /\ launched' = <<>>
            /\ dispatchCount' = dispatchCount
            /\ cycle' = cycle
      ]_vars

\* The query of the second cycle failed after a first cycle that dispatched.
C10_Witness ==
    /\ exitCause = "query"
    /\ pc = "exited"
    /\ cycle = 2
    /\ \E i \in Ids : dispatchCount[i] = 1

IsPrefix(s, t) == Len(s) <= Len(t) /\ SubSeq(t, 1, Len(s)) = s

\* Every batch of the cycle has been waited for.
CycleDone == pc = "dispatch" /\ bi > Len(batches)

\* C11: the goroutines started in a cycle are, in order, a beginning of the
\* sequence the cycle's query returned, none of its ids twice; a goroutine
\* that has run belongs to a started id and sent {"uuid": that id}; and once
\* every batch has been waited for, each returned id was started and has run.
C11_EachCandidateOnce ==
    /\ IsPrefix(launched, candidates)
    /\ NoDup(launched)
    /\ \A t \in tasks : t.jobExtID \in Range(launched)
    /\ \A i \in Ids : result[i].called =>
        /\ i \in Range(launched)
        /\ result[i].body = [uuid |-> i]
    /\ CycleDone =>
        /\ launched = candidates
        /\ tasks = {}
        /\ \A i \in Range(candidates) : result[i].called

\* Two candidates in one batch, both answered 200, the cycle done.
C11_Witness ==
    /\ CycleDone
    /\ Len(candidates) = 2
    /\ Len(batches) = 1
    /\ \A i \in Range(candidates) :
        /\ result[i].called
        /\ result[i].resp.StatusCode = 200
        /\ result[i].err = "nil"
    /\ \A i \in Ids : dispatchCount[i] = IF i \in Range(candidates) THEN 1 ELSE 0

\* C12: while main is at the query or cutting batches no goroutine is in
\* flight and the WaitGroup counter is zero, and a goroutine in flight always
\* belongs to the cycle main is in.
C12_NoCrossCycleConcurrency ==
    /\ pc \in {"query", "batch"} => tasks = {} /\ wg = 0
    /\ \A t \in tasks : t.cycle = cycle /\ pc \in {"dispatch", "exited"}

\* The second cycle's query has returned after a first cycle that dispatched.
C12_Witness ==
    /\ cycle = 2
    /\ pc = "batch"
    /\ candidates # <<>>
    /\ tasks = {}
    /\ \E i \in Ids : dispatchCount[i] = 1

Ceil(n, B) == (n + B - 1) \div B

\* C13: each barrier passed in a cycle with candidates waited for the
\* goroutines of its own batch, between 1 and batchSize of them, none still in
\* flight behind it; and a cycle of n >= 1 candidates is done after exactly
\* ceil(n / batchSize) barriers.
C13_BarrierCount ==
    /\ pc = "dispatch" => Len(barriers) = bi - 1
    /\ \A k \in DOMAIN barriers :
        /\ barriers[k] = Len(batches[k])
        /\ candidates # <<>> => barriers[k] >= 1 /\ barriers[k] <= batchSize
        /\ \A t \in tasks : t.batch > k
    /\ (CycleDone /\ candidates # <<>>) =>
        Len(barriers) = Ceil(Len(candidates), batchSize)

\* Batch size 1, three candidates: three barriers of one goroutine each.
C13_Witness ==
    /\ batchSize = 1
    /\ Len(candidates) = 3
    /\ CycleDone
    /\ barriers = <<1, 1, 1>>

\* C14: the process ends only on a step that is a failed query or a failed
\* listener, never on a step of a dispatch goroutine; a goroutine's return
\* leaves main where it is; and from a completed cycle main moves only to the
\* query of the next cycle.
C14_ExitsOnlyOnFatal ==
    [][/\ (pc' = "exited" /\ pc # "exited") =>
            /\ exitCause' \in {"query", "listener"}
            /\ exitCause' = "query" => pc = "query"
            /\ tasks' = tasks
            /\ failed' = failed
       /\ tasks' # tasks /\ tasks' \subseteq tasks => pc' = pc /\ exitCause' = exitCause
       /\ (CycleDone /\ pc' # pc /\ exitCause' # "listener") =>
            /\ pc' = "query"
            /\ cycle' = cycle + 1
      ]_vars

\* The listener ended the process after a dispatch had failed, with another in flight.
C14_Witness ==
    /\ pc = "exited"
    /\ exitCause = "listener"
    /\ failed # {}
    /\ tasks # {}

\* -------------------------------------------------------------- fairness
\* The Go scheduler keeps running main while it is not blocked, and the claim
\* supposes that every dispatch goroutine's call returns.
MainStep == QueryOK \/ QueryError \/ BatchStep \/ BatchLast \/ Launch \/ Wait \/ EndCycle
GoroutineStep == \E t \in tasks, resp \in Responses(StatusCodes) : Goroutine(t, resp)

\* The loop over a store that nobody writes meanwhile, no row acknowledged yet.
InitFair ==
    /\ Init
    /\ \A r \in Rows : store[r].propagated = FALSE

NextFair == ListenerFatal \/ MainStep \/ GoroutineStep

SpecFair == InitFair /\ [][NextFair]_vars /\ WF_vars(MainStep) /\ WF_vars(GoroutineStep)

\* C15: while a goroutine is in flight main neither moves to another batch
\* nor leaves the cycle; and when main and the goroutines keep running, every
\* batch main is at gets waited for and the cycle gets done, unless the
\* process is ended first.
C15_BarrierBlocksThenPasses ==
    /\ [][tasks # {} =>
            /\ bi' = bi
            /\ cycle' = cycle
            /\ pc' = pc \/ pc' = "exited"
            /\ \A t \in tasks' : t.batch = bi]_vars
    /\ \A k \in 1..Cardinality(Ids) :
        (pc = "dispatch" /\ bi = k /\ k <= Len(batches)) ~> (bi > k \/ pc = "exited")
    /\ (pc = "dispatch") ~> (CycleDone \/ pc = "query" \/ pc = "exited")

\* A goroutine of the first batch is still in flight and a second batch is waiting.
C15_Witness ==
    /\ pc = "dispatch"
    /\ bi = 1
    /\ ji > Len(batches[1])
    /\ Len(batches) >= 2
    /\ tasks # {}
    /\ Cardinality(tasks) < Len(batches[1])

\* C16: the candidates change only at the query; the goroutines started in a
\* cycle are the members of that snapshot one after the other, none skipped,
\* whatever the store holds by then; and the next query returns only ids that
\* then still have a selectable row.
C16_CandidatesAreSnapshot ==
    [][/\ candidates' # candidates => pc = "query"
       /\ (pc = "dispatch" /\ ji' = ji + 1) =>
            /\ launched' = Append(launched, candidates[Len(launched) + 1])
            /\ \E t \in tasks' \ tasks : t.jobExtID = candidates[Len(launched) + 1]
       /\ (pc = "query" /\ pc' = "batch") =>
            \A i \in Range(candidates') : HasSelectableRow(store, maxRetries, i)
      ]_vars

\* The record of the id main starts next was acknowledged after the query
\* that returned it, and the start is not held back.
C16_Witness ==
    /\ pc = "dispatch"
    /\ bi = 2
    /\ ji = 1
    /\ Len(batches) >= 2
    /\ ~HasSelectableRow(store, maxRetries, batches[2][1])
    /\ \A r \in Rows : store[r].external_id = batches[2][1] => store[r].propagated
    /\ ENABLED Launch

\* C17: the WaitGroup counter is never negative, equals the number of
\* goroutines in flight, has gone down by one for every goroutine that
\* returned whatever it logged, and is zero at the query, during batching,
\* right after a barrier and when the cycle is done.
C17_WaitGroupBalanced ==
    /\ wg >= 0
    /\ wg = Cardinality(tasks)
    /\ wg = Len(launched) - Cardinality({i \in Ids : result[i].called})
    /\ pc \in {"query", "batch"} => wg = 0
    /\ (pc = "dispatch" /\ ji = 1) => wg = 0
    /\ CycleDone => wg = 0

\* A goroutine that failed and one that succeeded have both returned; the cycle is done.
C17_Witness ==
    /\ CycleDone
    /\ wg = 0
    /\ \E i, j \in Ids :
        /\ result[i].called /\ result[i].err = "transport"
        /\ result[j].called /\ result[j].err = "nil"

\* ------------------------------------------------- one iteration from the batching on
MaxCycleLen == 3

\* The state right after the query of line 222 returned, for any candidate
\* sequence and any batch size from 0 up.
InitCycle ==
    /\ store = [r \in Rows |->
                  [external_id |-> RowExt(r), propagated |-> FALSE, propagation_attempts |-> 0]]
    /\ maxRetries = 1
    /\ batchSize \in 0..(MaxCycleLen + 1)
    /\ appsURI = TRUE
    /\ pc = "batch"
    /\ exitCause = "none"
    /\ cycle = 1
    /\ unpropped \in SeqsUpTo(Ids, MaxCycleLen)
    /\ candidates = unpropped
    /\ batches = <<>>
    /\ bi = 1
    /\ ji = 1
    /\ wg = 0
    /\ tasks = {}
    /\ launched = <<>>
    /\ result = NoResult
    /\ dispatchCount = [i \in Ids |-> 0]
    /\ failed = {}
    /\ barriers = <<>>

NextCycle == MainStep \/ GoroutineStep

SpecCycle == InitCycle /\ [][NextCycle]_vars /\ WF_vars(MainStep) /\ WF_vars(GoroutineStep)

\* C18: with a batch size of at least one the batching loop is left for the
\* dispatch, with at least one batch; an empty candidate sequence gives
\* exactly one empty batch, no goroutine and one barrier that gated nothing;
\* with a batch size of zero and a candidate the loop is never left, the
\* pending slice never shrinks and no goroutine is started.
C18_BatchingTerminates ==
    /\ (pc = "batch" /\ batchSize >= 1) ~> (pc = "dispatch")
    /\ [](pc = "dispatch" => Len(batches) >= 1)
    /\ []((pc = "dispatch" /\ candidates = <<>>) => batches = << <<>> >>)
    /\ []((CycleDone /\ candidates = <<>>) => (launched = <<>> /\ barriers = <<0>>))
    /\ [][(pc = "batch" /\ batchSize = 0 /\ unpropped # <<>>) =>
             (pc' = "batch" /\ unpropped' = unpropped /\ launched' = <<>> /\ tasks' = {})]_vars

\* The loop has gone round three times on a batch size of zero: three empty
\* batches, the pending slice as long as at the start.
C18_Witness ==
    /\ pc = "batch"
    /\ batchSize = 0
    /\ unpropped = candidates
    /\ candidates # <<>>
    /\ Len(batches) >= 3
    /\ \A k \in 1..Len(batches) : batches[k] = <<>>
    /\ launched = <<>>
====
